---- MODULE Spec2Model ----
(***************************************************************************)
(* Model of the job aggregator in src/app.py: the six provider adapters,   *)
(* the normalization helpers, normalize_jobs and the index route.          *)
(*                                                                         *)
(* Text is modelled as a sequence of one-character strings, so that        *)
(* lower(), strip(), "in" and replace() are computed and not assumed.      *)
(* A value of the Python program (a decoded JSON value, or an exception    *)
(* in flight) is a record with a kind field k.                             *)
(***************************************************************************)
EXTENDS Integers, Sequences, FiniteSets, TLC

VARIABLES env, pc, caller, limit, jobs, gets, ret, page, call

vars == <<env, pc, caller, limit, jobs, gets, ret, page, call>>

(***************************************************************************)
(* Text                                                                    *)
(***************************************************************************)

\* str.lower() on the letters the model uses (ASCII).
LowerOf ==
    [A |-> "a", B |-> "b", C |-> "c", D |-> "d", E |-> "e", F |-> "f", G |-> "g",
     H |-> "h", I |-> "i", J |-> "j", K |-> "k", L |-> "l", M |-> "m", N |-> "n",
     O |-> "o", P |-> "p", Q |-> "q", R |-> "r", S |-> "s", T |-> "t", U |-> "u",
     V |-> "v", W |-> "w", X |-> "x", Y |-> "y", Z |-> "z"]

LowerChar(c) ==
    IF c \in DOMAIN LowerOf THEN LowerOf[c] ELSE c

Lower(s) ==
    [i \in 1..Len(s) |-> LowerChar(s[i])]

\* The characters str.strip() removes.
WhiteSpace ==
    {" ", "\t", "\n", "\r"}

SetMin(S) ==
    CHOOSE x \in S : \A y \in S : x <= y

SetMax(S) ==
    CHOOSE x \in S : \A y \in S : x >= y

\* str.strip(): drop leading and trailing whitespace.
Strip(s) ==
    LET keep == {i \in 1..Len(s) : s[i] \notin WhiteSpace}
    IN  IF keep = {} THEN <<>> ELSE SubSeq(s, SetMin(keep), SetMax(keep))

\* kw in s
Contains(s, kw) ==
    \E i \in 0..(Len(s) - Len(kw)) : SubSeq(s, i + 1, i + Len(kw)) = kw

\* s.replace(a, b) for a one-character a and b
ReplaceChar(s, a, b) ==
    [i \in 1..Len(s) |-> IF s[i] = a THEN b ELSE s[i]]

RECURSIVE Concat(_)
\* "".join(parts)
Concat(parts) ==
    IF parts = <<>> THEN <<>> ELSE Head(parts) \o Concat(Tail(parts))

RECURSIVE JoinWith(_, _)
\* sep.join(parts)
JoinWith(sep, parts) ==
    IF parts = <<>> THEN <<>>
    ELSE IF Len(parts) = 1 THEN parts[1]
    ELSE parts[1] \o sep \o JoinWith(sep, Tail(parts))

kw_intern == <<"i", "n", "t", "e", "r", "n">>
kw_internship == <<"i", "n", "t", "e", "r", "n", "s", "h", "i", "p">>
kw_data == <<"d", "a", "t", "a">>
kw_analyst == <<"a", "n", "a", "l", "y", "s", "t">>
kw_ai == <<"a", "i">>
kw_ml == <<"m", "l">>
kw_machine_learning == <<"m", "a", "c", "h", "i", "n", "e", " ", "l", "e", "a", "r", "n", "i", "n", "g">>

Internship == <<"I", "n", "t", "e", "r", "n", "s", "h", "i", "p">>
DataScience == <<"D", "a", "t", "a", " ", "S", "c", "i", "e", "n", "c", "e">>
AIML == <<"A", "I", "/", "M", "L">>
SoftwareEngineering == <<"S", "o", "f", "t", "w", "a", "r", "e", " ", "E", "n", "g", "i", "n", "e", "e", "r", "i", "n", "g">>

Categories ==
    {Internship, DataScience, AIML, SoftwareEngineering}

RemoteText == <<"R", "e", "m", "o", "t", "e">>
USGovernment == <<"U", "S", " ", "G", "o", "v", "e", "r", "n", "m", "e", "n", "t">>

Adapters ==
    <<"Remotive", "Adzuna", "JSearch", "Careerjet", "TheMuse", "USAJobs">>

AdapterSet ==
    {Adapters[i] : i \in 1..Len(Adapters)}

\* The source name each adapter passes to generate_job_id, as text.
SourceText ==
    [Remotive |-> <<"R", "e", "m", "o", "t", "i", "v", "e">>,
     Adzuna |-> <<"A", "d", "z", "u", "n", "a">>,
     JSearch |-> <<"J", "S", "e", "a", "r", "c", "h">>,
     Careerjet |-> <<"C", "a", "r", "e", "e", "r", "j", "e", "t">>,
     TheMuse |-> <<"T", "h", "e", "M", "u", "s", "e">>,
     USAJobs |-> <<"U", "S", "A", "J", "o", "b", "s">>]

(***************************************************************************)
(* Categorization and utility helpers                                      *)
(***************************************************************************)

\* A bug categorize_job could have: the data rule tested before the intern rule.
categorize_job_DataFirst(title) ==
    LET t == Lower(title)
    IN  IF Contains(t, kw_data) \/ Contains(t, kw_analyst) THEN DataScience
        ELSE IF Contains(t, kw_intern) \/ Contains(t, kw_internship) THEN Internship
        ELSE IF Contains(t, kw_ai) \/ Contains(t, kw_ml) \/ Contains(t, kw_machine_learning)
             THEN AIML
        ELSE SoftwareEngineering

categorize_job(title) ==
    LET t == Lower(title)
    IN  IF Contains(t, kw_intern) \/ Contains(t, kw_internship) THEN Internship
        ELSE IF Contains(t, kw_data) \/ Contains(t, kw_analyst) THEN DataScience
        ELSE IF Contains(t, kw_ai) \/ Contains(t, kw_ml) \/ Contains(t, kw_machine_learning)
             THEN AIML
        ELSE SoftwareEngineering

slug_for_category(category) ==
    ReplaceChar(ReplaceChar(Lower(category), "/", "-"), " ", "-")

\* The text generate_job_id hashes.
IdInput(title, company, source) ==
    Strip(Lower(source \o <<":">> \o title \o <<":">> \o company))

\* md5(...).hexdigest()[:16] is kept symbolic: the id is the digest of IdInput.
generate_job_id(title, company, source) ==
    [md5_16 |-> IdInput(title, company, source)]

(***************************************************************************)
(* Python values                                                           *)
(***************************************************************************)

Raise == [k |-> "raise"]
None == [k |-> "null"]
Str(s) == [k |-> "str", v |-> s]
Num(n) == [k |-> "num", v |-> n]
List(xs) == [k |-> "list", v |-> xs]
Obj(f) == [k |-> "obj", v |-> f]

\* A str holding an ISO-8601 date-time: local time t, and its UTC marker z:
\* "none" (no offset), "Z", or "off" (a +HH:00 offset of off hours).
Iso(t, z, off) == [k |-> "iso", t |-> t, z |-> z, off |-> off]

EmptyObj == Obj(<<>>)
EmptyList == List(<<>>)
EmptyStr == Str(<<>>)

\* bool(x)
Truthy(x) ==
    CASE x.k = "null" -> FALSE
      [] x.k = "str" -> x.v # <<>>
      [] x.k = "iso" -> TRUE
      [] x.k = "num" -> x.v # 0
      [] x.k = "list" -> x.v # <<>>
      [] x.k = "obj" -> DOMAIN x.v # {}
      [] OTHER -> FALSE

\* d.get(key, default); AttributeError when d is not a dict.
PGet(d, key, default) ==
    IF d.k = "obj"
    THEN IF key \in DOMAIN d.v THEN d.v[key] ELSE default
    ELSE Raise

\* a or b, where b is evaluated only when a is falsy.
POr(a, b) ==
    IF a.k = "raise" THEN Raise
    ELSE IF Truthy(a) THEN a
    ELSE b

\* x.strip(); AttributeError when x is not a str.
PStrip(x) ==
    CASE x.k = "str" -> Str(Strip(x.v))
      [] x.k = "iso" -> x
      [] OTHER -> Raise

\* x[0]: IndexError on an empty list or str, KeyError on a dict, TypeError otherwise.
PFirst(x) ==
    CASE x.k = "list" -> IF x.v = <<>> THEN Raise ELSE x.v[1]
      [] x.k = "str" -> IF x.v = <<>> THEN Raise ELSE Str(<<x.v[1]>>)
      [] x.k = "iso" -> Str(<<"2">>)
      [] OTHER -> Raise

\* The values "for item in x" yields, as a list (each character of a str, each
\* key of a dict, as a str), or Raise when x is not iterable.
PIter(x) ==
    CASE x.k = "list" -> x
      [] x.k = "str" -> List([i \in 1..Len(x.v) |-> Str(<<x.v[i]>>)])
      [] x.k = "obj" ->
            LET keys == DOMAIN x.v
                ord == CHOOSE f \in [1..Cardinality(keys) -> keys] :
                          \A i, j \in 1..Cardinality(keys) : i # j => f[i] # f[j]
            IN  List([i \in 1..Cardinality(keys) |-> Str(<<ord[i]>>)])
      [] OTHER -> Raise

(***************************************************************************)
(* Date normalization                                                      *)
(***************************************************************************)

\* A published value: "" (form "empty"), or the isoformat() text of a
\* datetime without offset ("naive") or with one ("aware").
NoDate == [form |-> "empty", t |-> 0, off |-> 0]
Naive(t) == [form |-> "naive", t |-> t, off |-> 0]
Aware(t, off) == [form |-> "aware", t |-> t, off |-> off]

parse_iso_datetime(value) ==
    IF ~Truthy(value) THEN NoDate
    ELSE IF value.k # "iso" THEN NoDate
    ELSE IF value.z = "Z" THEN Aware(value.t, 0)
    ELSE IF value.z = "off" THEN Aware(value.t, value.off)
    ELSE Naive(value.t)

(***************************************************************************)
(* External API providers                                                  *)
(***************************************************************************)

\* What requests.get / raise_for_status / response.json() can produce:
\* a transport error or timeout, a non-2xx status, a 2xx body that is not
\* JSON, or a 2xx body decoded to the value v.
HttpTransportError == [k |-> "transport"]
HttpBadStatus == [k |-> "status"]
HttpNotJson == [k |-> "notjson"]
HttpJson(v) == [k |-> "json", v |-> v]

\* os.getenv(name) is falsy: the variable is unset or set to "".
EnvStates ==
    {"unset", "empty", "set"}

Credentials ==
    {"ADZUNA_APP_ID", "ADZUNA_APP_KEY", "RAPIDAPI_KEY", "CAREERJET_AFFID", "THEMUSE_API_KEY"}

EnvFalsy(e, name) ==
    e[name] # "set"

Skip == [k |-> "skip"]
Job(r) == [k |-> "job", v |-> r]

\* c if cond else d
PIf(cond, c, d) ==
    IF cond.k = "raise" THEN Raise
    ELSE IF Truthy(cond) THEN c
    ELSE d

\* A bug an adapter could have: the completeness test left out.
MakeJob_NoSkip(title, company, location, url, date, source, needCompany) ==
    IF "raise" \in {title.k, company.k, location.k, url.k} THEN Raise
    ELSE Job([id |-> generate_job_id(title.v, company.v, SourceText[source]),
              title |-> title.v,
              company |-> company.v,
              location |-> location.v,
              url |-> url.v,
              category |-> categorize_job(title.v),
              source |-> source,
              published |-> parse_iso_datetime(date)])

\* The record an adapter appends for the stripped fields it extracted, after
\* its "if not title or not company or not url: continue" test; an exception
\* raised while a field was extracted leaves the adapter.
MakeJob(title, company, location, url, date, source, needCompany) ==
    IF "raise" \in {title.k, company.k, location.k, url.k} THEN Raise
    ELSE IF ~Truthy(title) \/ (needCompany /\ ~Truthy(company)) \/ ~Truthy(url) THEN Skip
    ELSE Job([id |-> generate_job_id(title.v, company.v, SourceText[source]),
              title |-> title.v,
              company |-> company.v,
              location |-> location.v,
              url |-> url.v,
              category |-> categorize_job(title.v),
              source |-> source,
              published |-> parse_iso_datetime(date)])

IsJob(x) ==
    x.k = "job"

\* The jobs list at the end of an adapter's loop over the per-item results rs,
\* or the exception the first failing item raised.
Collect(rs) ==
    IF \E i \in 1..Len(rs) : rs[i].k = "raise" THEN Raise
    ELSE LET kept == SelectSeq(rs, IsJob)
         IN  List([i \in 1..Len(kept) |-> kept[i].v])

\* The loop of an adapter over its, the values the listing array yields (or
\* the exception iterating it raises), rs being the result of each pass.
Loop(its, rs) ==
    IF its.k = "raise" THEN Raise ELSE Collect(rs)

\* One pass of the loop of fetch_remotive_jobs.
remotive_item(item) ==
    IF item.k # "obj" THEN Skip
    ELSE LET title == PStrip(POr(PGet(item, "title", None), EmptyStr))
             company == PStrip(POr(PGet(item, "company_name", None),
                                   POr(PGet(item, "company", None), EmptyStr)))
             location == PStrip(POr(PGet(item, "candidate_required_location", None),
                                    POr(PGet(item, "location", None), Str(RemoteText))))
             url == PStrip(POr(PGet(item, "url", None),
                               POr(PGet(item, "job_url", None), EmptyStr)))
             date == POr(PGet(item, "publication_date", None),
                         PGet(item, "published_at", None))
         IN  MakeJob(title, company, location, url, date, "Remotive", TRUE)

\* The body of fetch_remotive_jobs after a 2xx response decoded to payload.
remotive_body(payload) ==
    LET first == PGet(payload, "jobs", EmptyList)
        items == POr(first, IF payload.k = "list" THEN payload ELSE EmptyList)
        its == PIter(items)
    IN  Loop(its, [i \in 1..Len(its.v) |-> remotive_item(its.v[i])])

\* One pass of the loop of fetch_adzuna_jobs.
adzuna_item(item) ==
    LET title == PStrip(POr(PGet(item, "title", None), EmptyStr))
        company == PStrip(POr(PGet(PGet(item, "company", EmptyObj), "display_name", None),
                              POr(PGet(PGet(item, "company", EmptyObj), "name", None),
                                  EmptyStr)))
        location == PStrip(POr(PGet(PGet(item, "location", EmptyObj), "display_name", None),
                               POr(PFirst(PGet(PGet(item, "location", EmptyObj), "area",
                                               List(<<EmptyStr>>))),
                                   Str(RemoteText))))
        url == PStrip(POr(PGet(item, "redirect_url", None),
                          POr(PGet(item, "url", None), EmptyStr)))
        date == PGet(item, "created", None)
    IN  MakeJob(title, company, location, url, date, "Adzuna", TRUE)

adzuna_body(payload) ==
    LET items == POr(PGet(payload, "results", EmptyList), EmptyList)
        its == PIter(items)
    IN  Loop(its, [i \in 1..Len(its.v) |-> adzuna_item(its.v[i])])

\* ", ".join(parts): TypeError unless every part is a str.
PJoin(parts) ==
    IF \E i \in 1..Len(parts) : parts[i].k # "str" THEN Raise
    ELSE Str(JoinWith(<<",", " ">>, [i \in 1..Len(parts) |-> parts[i].v]))

\* One pass of the loop of fetch_jsearch_jobs.
jsearch_item(item) ==
    LET title == PStrip(POr(PGet(item, "job_title", None), EmptyStr))
        company == PStrip(POr(PGet(item, "employer_name", None), EmptyStr))
        city == PGet(item, "job_city", None)
        state == PGet(item, "job_state", None)
        country == PGet(item, "job_country", None)
        location_parts ==
            (IF Truthy(city) THEN <<city>> ELSE <<>>)
            \o (IF Truthy(state) THEN <<state>> ELSE <<>>)
            \o (IF Truthy(country) THEN <<country>> ELSE <<>>)
        location ==
            IF item.k # "obj" THEN Raise
            ELSE PStrip(IF location_parts # <<>> THEN PJoin(location_parts)
                        ELSE Str(RemoteText))
        url == PStrip(POr(PGet(item, "job_apply_link", None),
                          POr(PGet(item, "job_url", None), EmptyStr)))
        date == POr(PGet(item, "job_posted_at_datetime_utc", None),
                    PGet(item, "job_posted_at", None))
    IN  MakeJob(title, company, location, url, date, "JSearch", TRUE)

jsearch_body(payload) ==
    LET items == POr(PGet(payload, "data", EmptyList), EmptyList)
        its == PIter(items)
    IN  Loop(its, [i \in 1..Len(its.v) |-> jsearch_item(its.v[i])])

\* One pass of the loop of fetch_careerjet_jobs.
careerjet_item(item) ==
    LET title == PStrip(POr(PGet(item, "title", None), EmptyStr))
        company == PStrip(POr(PGet(item, "company", None), EmptyStr))
        location == PStrip(POr(PGet(item, "locations", None),
                               POr(PGet(item, "location", None), Str(RemoteText))))
        url == PStrip(POr(PGet(item, "url", None),
                          POr(PGet(item, "site", None), EmptyStr)))
        date == PGet(item, "date", None)
    IN  MakeJob(title, company, location, url, date, "Careerjet", TRUE)

careerjet_body(payload) ==
    LET items == POr(PGet(payload, "jobs", EmptyList), EmptyList)
        its == PIter(items)
    IN  Loop(its, [i \in 1..Len(its.v) |-> careerjet_item(its.v[i])])

\* One pass of the loop of fetch_themuse_jobs.
themuse_item(item) ==
    LET title == PStrip(POr(PGet(item, "name", None), EmptyStr))
        company_obj == PGet(item, "company", EmptyObj)
        company == PStrip(POr(PGet(company_obj, "name", None), EmptyStr))
        locations == PGet(item, "locations", EmptyList)
        location == PStrip(PIf(locations,
                               PGet(PFirst(locations), "name", Str(RemoteText)),
                               Str(RemoteText)))
        url == PStrip(POr(PGet(PGet(item, "refs", EmptyObj), "landing_page", None),
                          EmptyStr))
        date == PGet(item, "publication_date", None)
    IN  MakeJob(title, company, location, url, date, "TheMuse", TRUE)

themuse_body(payload) ==
    LET items == POr(PGet(payload, "results", EmptyList), EmptyList)
        its == PIter(items)
    IN  Loop(its, [i \in 1..Len(its.v) |-> themuse_item(its.v[i])])

\* One pass of the loop of fetch_usajobs.
usajobs_item(item) ==
    LET matched_obj == PGet(item, "MatchedObjectDescriptor", EmptyObj)
        title == PStrip(POr(PGet(matched_obj, "PositionTitle", None), EmptyStr))
        org_codes == PGet(matched_obj, "OrganizationCodes", EmptyList)
        company == PStrip(PIf(org_codes, PFirst(org_codes), Str(USGovernment)))
        position_locations == PGet(matched_obj, "PositionLocationDisplay", EmptyList)
        location == PStrip(PIf(position_locations, PFirst(position_locations),
                               Str(RemoteText)))
        position_urls == PGet(matched_obj, "PositionURI", EmptyList)
        url == PStrip(PIf(position_urls, PFirst(position_urls), EmptyStr))
        date == PGet(matched_obj, "PublicationStartDate", None)
    IN  MakeJob(title, company, location, url, date, "USAJobs", FALSE)

usajobs_body(payload) ==
    LET search_result == PGet(payload, "SearchResult", EmptyObj)
        items == POr(PGet(search_result, "SearchResultItems", EmptyList), EmptyList)
        its == PIter(items)
    IN  Loop(its, [i \in 1..Len(its.v) |-> usajobs_item(its.v[i])])

\* The parsing half of the adapter src: everything after its try/except.
Body(src, payload) ==
    CASE src = "Remotive" -> remotive_body(payload)
      [] src = "Adzuna" -> adzuna_body(payload)
      [] src = "JSearch" -> jsearch_body(payload)
      [] src = "Careerjet" -> careerjet_body(payload)
      [] src = "TheMuse" -> themuse_body(payload)
      [] src = "USAJobs" -> usajobs_body(payload)

\* The adapter's credential test: TRUE when it returns [] before any request.
MissingCredentials(src, e) ==
    CASE src = "Remotive" -> FALSE
      [] src = "Adzuna" -> EnvFalsy(e, "ADZUNA_APP_ID") \/ EnvFalsy(e, "ADZUNA_APP_KEY")
      [] src = "JSearch" -> EnvFalsy(e, "RAPIDAPI_KEY")
      [] src = "Careerjet" -> EnvFalsy(e, "CAREERJET_AFFID")
      [] src = "TheMuse" -> EnvFalsy(e, "THEMUSE_API_KEY")
      [] src = "USAJobs" -> FALSE

\* One call of the adapter src under environment e, where http is what its
\* request (if it makes one) meets: the number of GETs issued, and the list
\* returned or the exception raised.
Fetch(src, e, http) ==
    IF MissingCredentials(src, e) THEN [get |-> 0, out |-> EmptyList]
    ELSE IF http.k \in {"transport", "status"} THEN [get |-> 1, out |-> EmptyList]
    ELSE IF http.k = "notjson" THEN [get |-> 1, out |-> Raise]
    ELSE [get |-> 1, out |-> Body(src, http.v)]

(***************************************************************************)
(* Job normalization and aggregation                                       *)
(***************************************************************************)

IndexLimit == 50
DatetimeMin == 0

\* The deduplication key of normalize_jobs.
DedupKey(job) ==
    <<Strip(Lower(job.title)), Strip(Lower(job.company))>>

RECURSIVE DedupLoop(_, _, _)
\* The deduplication loop: rest is still to visit, seen and unique as in the code.
DedupLoop(rest, seen, unique) ==
    IF rest = <<>> THEN unique
    ELSE LET job == Head(rest)
             key == DedupKey(job)
         IN  IF key \in seen
             THEN DedupLoop(Tail(rest), seen, unique)
             ELSE DedupLoop(Tail(rest), seen \cup {key}, Append(unique, job))

\* A bug the deduplication could have: a repeated key replaces the record kept.
Dedup_LastWins(js) ==
    LET last == {i \in 1..Len(js) :
                    \A j \in (i + 1)..Len(js) : DedupKey(js[j]) # DedupKey(js[i])}
        F[i \in 0..Len(js)] ==
            IF i = 0 THEN <<>>
            ELSE IF i \in last THEN Append(F[i - 1], js[i]) ELSE F[i - 1]
    IN  F[Len(js)]

Dedup(js) ==
    DedupLoop(js, {}, <<>>)

\* sort_key: the datetime a record is ordered by. aware tells whether it
\* carries an offset; inst is its instant (UTC for an aware one). Instants of
\* real dates are above DatetimeMin.
sort_key(job) ==
    LET published == job.published
    IN  IF published.form = "empty" THEN [aware |-> FALSE, inst |-> DatetimeMin]
        ELSE IF published.form = "aware"
             THEN [aware |-> TRUE, inst |-> published.t - published.off]
        ELSE [aware |-> FALSE, inst |-> published.t]

\* Comparing two datetimes raises TypeError when exactly one carries an offset.
Comparable(a, b) ==
    a.aware = b.aware

RECURSIVE InsertDesc_BeforeEquals(_, _)
\* A bug the sort could have: x goes in front of the elements with its key, so
\* equal keys come out in reverse order.
InsertDesc_BeforeEquals(s, x) ==
    IF s = <<>> THEN <<x>>
    ELSE IF sort_key(Head(s)).inst > sort_key(x).inst
         THEN <<Head(s)>> \o InsertDesc_BeforeEquals(Tail(s), x)
    ELSE <<x>> \o s

RECURSIVE InsertDesc(_, _)
\* x placed after the last element of the descending list s whose key is not smaller.
InsertDesc(s, x) ==
    IF s = <<>> THEN <<x>>
    ELSE IF sort_key(Head(s)).inst >= sort_key(x).inst
         THEN <<Head(s)>> \o InsertDesc(Tail(s), x)
    ELSE <<x>> \o s

RECURSIVE StableDesc(_)
StableDesc(s) ==
    IF s = <<>> THEN <<>>
    ELSE InsertDesc(StableDesc(SubSeq(s, 1, Len(s) - 1)), s[Len(s)])

\* unique_jobs.sort(key=sort_key, reverse=True): a stable descending sort,
\* which raises as soon as it compares two keys that are not comparable; a
\* sort of two or more elements compares every element with another one.
SortJobs(js) ==
    IF \E i, j \in 1..Len(js) : ~Comparable(sort_key(js[i]), sort_key(js[j]))
    THEN Raise
    ELSE List(StableDesc(js))

\* s[:n] of Python: a negative n counts from the end.
SliceTo(s, n) ==
    IF n >= 0 THEN SubSeq(s, 1, IF n < Len(s) THEN n ELSE Len(s))
    ELSE SubSeq(s, 1, Len(s) + n)

\* normalize_jobs from the deduplication on, for the concatenated list js.
NormalizeTail(js, lim) ==
    LET sorted == SortJobs(Dedup(js))
    IN  IF sorted.k = "raise" THEN Raise
        ELSE List(SliceTo(sorted.v, lim))

(***************************************************************************)
(* Flask route                                                             *)
(***************************************************************************)

WithSlug(job) ==
    [id |-> job.id, title |-> job.title, company |-> job.company,
     location |-> job.location, url |-> job.url, category |-> job.category,
     source |-> job.source, published |-> job.published,
     category_slug |-> slug_for_category(job.category)]

\* A bug index could have: no handler around the pipeline.
IndexResponse_NoCatch(result) ==
    IF result.k = "raise" THEN [status |-> "error", jobs |-> <<>>]
    ELSE [status |-> "ok", jobs |-> [i \in 1..Len(result.v) |-> WithSlug(result.v[i])]]

\* What index renders for the outcome of normalize_jobs(limit=50).
IndexResponse(result) ==
    IF result.k = "raise" THEN [status |-> "ok", jobs |-> <<>>]
    ELSE [status |-> "ok", jobs |-> [i \in 1..Len(result.v) |-> WithSlug(result.v[i])]]

(***************************************************************************)
(* Responses the providers send in the aggregation runs                    *)
(***************************************************************************)

MaxLimit == 2
MaxNegLimit == 1

txt_Dev == <<"D", "e", "v">>
txt_DEV == <<"D", "E", "V">>
txt_QAIntern == <<"Q", "A", " ", "I", "n", "t", "e", "r", "n">>
txt_DataDev == <<"D", "a", "t", "a", " ", "D", "e", "v">>
txt_MLDev == <<"M", "L", " ", "D", "e", "v">>
txt_QA == <<"Q", "A">>
txt_Analyst == <<"A", "n", "a", "l", "y", "s", "t">>
txt_Acme == <<"A", "c", "m", "e">>
txt_acme == <<"a", "c", "m", "e">>
txt_Beta == <<"B", "e", "t", "a">>
txt_Url == <<"h", "t", "t", "p", ":", "/", "/", "j", "/", "1">>
txt_EU == <<"E", "U">>
txt_NY == <<"N", "Y">>
txt_US == <<"U", "S">>
txt_Blank == <<" ">>
txt_NotADate == <<"n", "o", "t", "-", "a", "-", "d", "a", "t", "e">>
txt_DevQA == <<"D", "e", "v", ":", "Q", "A">>
txt_QAAcme == <<"Q", "A", ":", "A", "c", "m", "e">>

\* The value v under the key(s) where the adapter src looks for its listing array.
Wrap(src, v) ==
    CASE src = "Remotive" -> Obj([jobs |-> v])
      [] src = "Adzuna" -> Obj([results |-> v])
      [] src = "JSearch" -> Obj([data |-> v])
      [] src = "Careerjet" -> Obj([jobs |-> v])
      [] src = "TheMuse" -> Obj([results |-> v])
      [] src = "USAJobs" -> Obj([SearchResult |-> Obj([SearchResultItems |-> v])])

\* The response body whose listing array is items.
Listing(src, items) ==
    Wrap(src, List(items))

\* Two well-formed listing items per provider. Across providers some share a
\* (title, company) key up to letter case, and their dates mix the forms:
\* none, unparseable, without offset, with "Z", with a numeric offset.
ItemA ==
    [Remotive |->
        Obj([title |-> Str(txt_Dev), company_name |-> Str(txt_Acme), url |-> Str(txt_Url),
             publication_date |-> Iso(2, "Z", 0)]),
     Adzuna |->
        Obj([title |-> Str(txt_DEV), company |-> Obj([display_name |-> Str(txt_acme)]),
             location |-> Obj([area |-> List(<<Str(txt_US), Str(txt_NY)>>)]),
             redirect_url |-> Str(txt_Url), created |-> Iso(3, "none", 0)]),
     JSearch |->
        Obj([job_title |-> Str(txt_Dev), employer_name |-> Str(txt_Beta),
             job_city |-> Str(txt_NY), job_country |-> Str(txt_US),
             job_apply_link |-> Str(txt_Url),
             job_posted_at_datetime_utc |-> Iso(1, "Z", 0)]),
     Careerjet |->
        Obj([title |-> Str(txt_Dev), company |-> Str(txt_Acme), url |-> Str(txt_Url),
             date |-> Iso(4, "none", 0)]),
     TheMuse |->
        Obj([name |-> Str(txt_QA), company |-> Obj([name |-> Str(txt_Beta)]),
             locations |-> List(<<Obj([name |-> Str(txt_EU)])>>),
             refs |-> Obj([landing_page |-> Str(txt_Url)]),
             publication_date |-> Iso(2, "Z", 0)]),
     USAJobs |->
        Obj([MatchedObjectDescriptor |->
                Obj([PositionTitle |-> Str(txt_Dev), PositionURI |-> List(<<Str(txt_Url)>>),
                     PublicationStartDate |-> Iso(1, "none", 0)])])]

ItemB ==
    [Remotive |->
        Obj([title |-> Str(txt_QAIntern), company |-> Str(txt_Acme),
             candidate_required_location |-> Str(txt_EU), job_url |-> Str(txt_Url)]),
     Adzuna |->
        Obj([title |-> Str(txt_DataDev), company |-> Obj([name |-> Str(txt_Beta)]),
             url |-> Str(txt_Url), created |-> Iso(3, "off", 1)]),
     JSearch |->
        Obj([job_title |-> Str(txt_MLDev), employer_name |-> Str(txt_Acme),
             job_url |-> Str(txt_Url), job_posted_at |-> Str(txt_NotADate)]),
     Careerjet |->
        Obj([title |-> Str(txt_QA), company |-> Str(txt_Beta), locations |-> Str(txt_EU),
             site |-> Str(txt_Url), date |-> Iso(1, "none", 0)]),
     TheMuse |->
        Obj([name |-> Str(txt_Analyst), company |-> Obj([name |-> Str(txt_Acme)]),
             refs |-> Obj([landing_page |-> Str(txt_Url)]),
             publication_date |-> Iso(2, "none", 0)]),
     USAJobs |->
        Obj([MatchedObjectDescriptor |->
                Obj([PositionTitle |-> Str(txt_QAIntern),
                     OrganizationCodes |-> List(<<Str(txt_Acme)>>),
                     PositionLocationDisplay |-> List(<<Str(txt_NY)>>),
                     PositionURI |-> List(<<Str(txt_Url)>>),
                     PublicationStartDate |-> Iso(5, "Z", 0)])])]

\* Two Remotive items with a ":" in the title of one and in the company of the
\* other, and no date.
ColonInTitle ==
    Obj([title |-> Str(txt_DevQA), company_name |-> Str(txt_Acme), url |-> Str(txt_Url)])

ColonInCompany ==
    Obj([title |-> Str(txt_Dev), company_name |-> Str(txt_QAAcme), url |-> Str(txt_Url)])

\* The listing arrays a provider answers with in an aggregation run.
RunListings(src) ==
    CASE src = "Remotive" ->
            << <<>>, <<ItemA[src]>>, <<ItemB[src]>>, <<ItemA[src], ItemB[src]>>,
               <<ColonInTitle, ColonInCompany>> >>
      [] src = "Careerjet" ->
            << <<>>, <<ItemA[src]>>, <<ItemA[src], ItemB[src]>> >>
      [] OTHER ->
            << <<>>, <<ItemA[src]>>, <<ItemB[src]>> >>

\* What the request of adapter src can meet in an aggregation run: a failure
\* of the request, a body that is not JSON, JSON of an unexpected shape (null;
\* a listing with a null entry), or one of its listings.
RunOutcomes(src) ==
    <<HttpTransportError,
      HttpBadStatus,
      HttpNotJson,
      HttpJson(None),
      HttpJson(Listing(src, <<ItemA[src], None>>))>>
    \o [n \in 1..Len(RunListings(src)) |-> HttpJson(Listing(src, RunListings(src)[n]))]

\* The limits normalize_jobs is called with directly.
Limits ==
    (-MaxNegLimit)..MaxLimit

(***************************************************************************)
(* The state machine of one request                                        *)
(***************************************************************************)

NoCall == [fn |-> "none"]

\* An exception that left normalize_jobs, with the step that raised it.
RaisedIn(step) == [k |-> "raise", in |-> step]

Init ==
    /\ env \in [Credentials -> EnvStates]
    /\ pc = "idle"
    /\ caller = "none"
    /\ limit = 0
    /\ jobs = <<>>
    /\ gets = [a \in AdapterSet |-> 0]
    /\ ret = None
    /\ page = None
    /\ call = NoCall

\* The adapter normalize_jobs calls after src, or "merge" after the last one.
After(src) ==
    LET i == CHOOSE n \in 1..Len(Adapters) : Adapters[n] = src
    IN  IF i = Len(Adapters) THEN "merge" ELSE Adapters[i + 1]

\* Where control goes when normalize_jobs ends (returns or raises).
Leave ==
    IF caller = "index" THEN "render" ELSE "done"

\* normalize_jobs(limit=l) is called directly.
NormalizeCall ==
    /\ pc = "idle"
    /\ \E l \in Limits : limit' = l
    /\ caller' = "direct"
    /\ pc' = Adapters[1]
    /\ UNCHANGED <<env, jobs, gets, ret, page, call>>

\* GET "/" arrives: index calls normalize_jobs(limit=50).
IndexCall ==
    /\ pc = "idle"
    /\ limit' = IndexLimit
    /\ caller' = "index"
    /\ pc' = Adapters[1]
    /\ UNCHANGED <<env, jobs, gets, ret, page, call>>

\* normalize_jobs calls the adapter src and extends jobs with its result; an
\* exception the adapter lets out leaves normalize_jobs at once.
FetchStep(src) ==
    /\ pc = src
    /\ \E n \in 1..Len(RunOutcomes(src)) :
          LET f == Fetch(src, env, RunOutcomes(src)[n])
          IN  /\ gets' = [gets EXCEPT ![src] = @ + f.get]
              /\ IF f.out.k = "raise"
                 THEN /\ ret' = RaisedIn(src)
                      /\ pc' = Leave
                      /\ jobs' = jobs
                 ELSE /\ ret' = ret
                      /\ pc' = After(src)
                      /\ jobs' = jobs \o f.out.v
    /\ UNCHANGED <<env, caller, limit, page, call>>

FetchRemotive == FetchStep("Remotive")
FetchAdzuna == FetchStep("Adzuna")
FetchJSearch == FetchStep("JSearch")
FetchCareerjet == FetchStep("Careerjet")
FetchTheMuse == FetchStep("TheMuse")
FetchUSAJobs == FetchStep("USAJobs")

\* normalize_jobs deduplicates, sorts and truncates, and returns or raises.
Merge ==
    /\ pc = "merge"
    /\ ret' = LET r == NormalizeTail(jobs, limit)
               IN  IF r.k = "raise" THEN RaisedIn("sort") ELSE r
    /\ pc' = Leave
    /\ UNCHANGED <<env, caller, limit, jobs, gets, page, call>>

\* index adds category_slug and renders, or renders [] in its handler.
Render ==
    /\ pc = "render"
    /\ page' = IndexResponse(ret)
    /\ pc' = "done"
    /\ UNCHANGED <<env, caller, limit, jobs, gets, ret, call>>

Next ==
    \/ NormalizeCall
    \/ IndexCall
    \/ FetchRemotive
    \/ FetchAdzuna
    \/ FetchJSearch
    \/ FetchCareerjet
    \/ FetchTheMuse
    \/ FetchUSAJobs
    \/ Merge
    \/ Render

Spec == Init /\ [][Next]_vars

(***************************************************************************)
(* Properties of an aggregation run                                        *)
(***************************************************************************)

\* normalize_jobs has ended, by returning or by raising.
Ended ==
    pc \in {"render", "done"}

Returned ==
    Ended /\ ret.k = "list"

\* The position of a provider in the call order of the specification.
CallOrder(source) ==
    CASE source = "Remotive" -> 1
      [] source = "Adzuna" -> 2
      [] source = "JSearch" -> 3
      [] source = "Careerjet" -> 4
      [] source = "TheMuse" -> 5
      [] source = "USAJobs" -> 6

\* The deduplication key as the specification words it.
KeyOf(r) ==
    <<Lower(Strip(r.title)), Lower(Strip(r.company))>>

\* C1: whatever the request of an adapter meets (transport error, non-2xx
\* status, a body that is not JSON, JSON of an unexpected shape), the adapter
\* returns a sequence and does not raise, so no run of normalize_jobs is
\* aborted by an adapter.
C1_NoAdapterAbortsTheRun ==
    (Ended /\ ret.k = "raise") => ret.in \notin AdapterSet

\* C2: the list normalize_jobs returns has no two records with the same
\* (lower-cased trimmed title, lower-cased trimmed company) key, each record
\* in it is the first record with its key in the concatenated adapter output,
\* that output is in the call order Remotive, Adzuna, JSearch, Careerjet,
\* TheMuse, USAJobs, and every key of it survives when the limit cuts nothing.
C2_FirstOccurrenceWins ==
    Returned =>
        /\ \A i, j \in 1..Len(ret.v) : KeyOf(ret.v[i]) = KeyOf(ret.v[j]) => i = j
        /\ \A i \in 1..Len(ret.v) :
              \E n \in 1..Len(jobs) :
                 /\ jobs[n] = ret.v[i]
                 /\ \A m \in 1..(n - 1) : KeyOf(jobs[m]) # KeyOf(jobs[n])
        /\ \A m, n \in 1..Len(jobs) :
              m < n => CallOrder(jobs[m].source) <= CallOrder(jobs[n].source)
        /\ limit >= Len(jobs) =>
              \A n \in 1..Len(jobs) :
                 \E i \in 1..Len(ret.v) : KeyOf(ret.v[i]) = KeyOf(jobs[n])

\* C2 witness: a run returned a record whose key a later provider repeated.
C2_Witness ==
    /\ Returned
    /\ \E i \in 1..Len(ret.v) : \E n \in 1..Len(jobs) :
          /\ KeyOf(jobs[n]) = KeyOf(ret.v[i])
          /\ jobs[n].source # ret.v[i].source

\* The instant a published value denotes.
InstantOf(published) ==
    published.t - published.off

\* C3: for every deduplicated list, whatever mix of empty, offset-aware and
\* offset-less published values it holds, the sort step completes, the
\* records come out by published descending, and every record with an empty
\* published comes after every record with a non-empty one.
C3_SortCompletesEmptyLast ==
    (Ended /\ (ret.k = "list" \/ ret.in = "sort")) =>
        /\ ret.k = "list"
        /\ \A i, j \in 1..Len(ret.v) :
              i < j =>
                 /\ ret.v[i].published.form = "empty" => ret.v[j].published.form = "empty"
                 /\ (ret.v[i].published.form # "empty" /\ ret.v[j].published.form # "empty")
                       => InstantOf(ret.v[i].published) >= InstantOf(ret.v[j].published)

\* C4: for every integer limit, 0 and negative ones included, normalize_jobs
\* returns exactly the first min(max(limit, 0), n) records of the sorted
\* deduplicated list of n records.
C4_ReturnsFirstLimitRecords ==
    Returned =>
        LET sorted == SortJobs(Dedup(jobs)).v
            n == Len(sorted)
            lim == IF limit > 0 THEN limit ELSE 0
            m == IF lim < n THEN lim ELSE n
        IN  /\ Len(ret.v) = m
            /\ \A i \in 1..m : ret.v[i] = sorted[i]

\* The adapters the specification has issue a GET under environment e.
ExpectedCallers(e) ==
    {"Remotive", "USAJobs"}
    \cup (IF e["ADZUNA_APP_ID"] = "set" /\ e["ADZUNA_APP_KEY"] = "set"
          THEN {"Adzuna"} ELSE {})
    \cup (IF e["RAPIDAPI_KEY"] = "set" THEN {"JSearch"} ELSE {})
    \cup (IF e["CAREERJET_AFFID"] = "set" THEN {"Careerjet"} ELSE {})
    \cup (IF e["THEMUSE_API_KEY"] = "set" THEN {"TheMuse"} ELSE {})

\* C5: in one run of normalize_jobs each adapter issues at most one GET, and
\* the adapters that issue one are exactly Remotive and USAJobs plus each
\* optional adapter whose credentials are set.
C5_GetsFollowCredentials ==
    Ended =>
        /\ \A a \in AdapterSet : gets[a] <= 1
        /\ {a \in AdapterSet : gets[a] >= 1} = ExpectedCallers(env)

\* The slug of each category, as the specification lists them.
SlugTable(category) ==
    CASE category = Internship -> <<"i", "n", "t", "e", "r", "n", "s", "h", "i", "p">>
      [] category = DataScience -> <<"d", "a", "t", "a", "-", "s", "c", "i", "e", "n", "c", "e">>
      [] category = AIML -> <<"a", "i", "-", "m", "l">>
      [] category = SoftwareEngineering -> <<"s", "o", "f", "t", "w", "a", "r", "e", "-", "e", "n", "g", "i", "n", "e", "e", "r", "i", "n", "g">>

\* C6: index never answers with an error: when a step of the pipeline raised
\* it renders an empty job list, and otherwise it renders exactly the list
\* normalize_jobs(limit=50) returned with category_slug added to each record.
C6_IndexDegradesToEmptyList ==
    (pc = "done" /\ caller = "index") =>
        /\ limit = 50
        /\ page.status = "ok"
        /\ ret.k = "raise" => page.jobs = <<>>
        /\ ret.k = "list" =>
              /\ Len(page.jobs) = Len(ret.v)
              /\ \A i \in 1..Len(ret.v) :
                    /\ page.jobs[i].category_slug = SlugTable(ret.v[i].category)
                    /\ \A f \in DOMAIN ret.v[i] : page.jobs[i][f] = ret.v[i][f]
                    /\ DOMAIN page.jobs[i] = DOMAIN ret.v[i] \cup {"category_slug"}

\* C6 witness: a step raised and the page was rendered with no jobs.
C6_Witness ==
    /\ pc = "done"
    /\ caller = "index"
    /\ ret.k = "raise"
    /\ page.status = "ok"
    /\ page.jobs = <<>>

\* Where the key of record r first occurs in the concatenated adapter output:
\* its place in the deduplicated concatenation, up to the records dropped.
FirstAt(r) ==
    SetMin({n \in 1..Len(jobs) : KeyOf(jobs[n]) = KeyOf(r)})

\* Two records the sort cannot tell apart: the same published instant, or both
\* with an empty published.
TiedRecords(a, b) ==
    \/ a.published.form = "empty" /\ b.published.form = "empty"
    \/ /\ a.published.form # "empty"
       /\ b.published.form # "empty"
       /\ InstantOf(a.published) = InstantOf(b.published)

\* C11: the descending sort is stable: any two records of the returned list
\* whose sort keys are equal (same published instant, or both with an empty
\* published) stand in the order they have in the deduplicated concatenation
\* (provider call order, then order within a response), not reversed.
C11_SortIsStable ==
    Returned =>
        \A i, j \in 1..Len(ret.v) :
           (i < j /\ TiedRecords(ret.v[i], ret.v[j])) =>
              /\ FirstAt(ret.v[i]) < FirstAt(ret.v[j])
              /\ CallOrder(ret.v[i].source) <= CallOrder(ret.v[j].source)

\* C11 witness: a run returned a list holding two records tied on one instant
\* and two records tied on an empty published.
C11_Witness ==
    /\ Returned
    /\ \E i, j \in 1..Len(ret.v) :
          /\ i < j
          /\ ret.v[i].published.form # "empty"
          /\ TiedRecords(ret.v[i], ret.v[j])
    /\ \E i, j \in 1..Len(ret.v) :
          /\ i < j
          /\ ret.v[i].published.form = "empty"
          /\ TiedRecords(ret.v[i], ret.v[j])

\* C12: any two distinct records of a list normalize_jobs returns were given
\* different texts lower(strip("source:title:company")) to hash into their
\* ids, also when a title or a company contains the ":" separator; so two
\* records of one source that both survive deduplication never share an id.
C12_IdInputsAreDistinct ==
    Returned =>
        \A i, j \in 1..Len(ret.v) :
           i # j => ret.v[i].id.md5_16 # ret.v[j].id.md5_16

(***************************************************************************)
(* Direct calls of one adapter                                          *)
(***************************************************************************)

txt_PaddedDev == <<" ", "D", "e", "v", " ">>

\* A key the raw item does not have.
Absent == [k |-> "absent"]

\* The JSON object with the keys of f that are not Absent.
MkObj(f) ==
    Obj([x \in {y \in DOMAIN f : f[y].k # "absent"} |-> f[x]])

\* The values a text field of a raw item takes: missing, null, "", blank,
\* padded text, a number.
TextValues ==
    {Absent, None, EmptyStr, Str(txt_Blank), Str(txt_PaddedDev), Num(7)}

\* The values a second-choice text field takes.
FallbackValues ==
    {Absent, Str(txt_Beta), Str(txt_Blank)}

\* The values a date field takes.
DateValues ==
    {Absent, None, Str(txt_NotADate), Num(7), Iso(2, "none", 0), Iso(2, "Z", 0),
     Iso(3, "off", 1)}

\* The values a nested name object (Adzuna and TheMuse company) takes.
CompanyObjects ==
    {Absent, None, EmptyObj, Str(txt_Acme),
     Obj([display_name |-> Str(txt_Acme)]),
     Obj([name |-> Str(txt_Beta)]),
     Obj([display_name |-> EmptyStr, name |-> Str(txt_Beta)]),
     Obj([display_name |-> None, name |-> None]),
     Obj([display_name |-> Str(txt_Blank), name |-> Str(txt_Blank)])}

\* The values a list-valued field (of text, or of named objects) takes.
ListValues ==
    {Absent, None, EmptyList, EmptyStr, Str(txt_NY),
     List(<<Str(txt_NY), Str(txt_EU)>>), List(<<EmptyStr>>), List(<<Str(txt_Blank)>>),
     List(<<None>>), List(<<EmptyObj>>), List(<<Obj([name |-> Str(txt_EU)])>>),
     List(<<Obj([name |-> None])>>), List(<<Obj([name |-> EmptyStr])>>),
     List(<<Obj([name |-> Str(txt_Blank)])>>)}

RemotiveBase ==
    [title |-> Str(txt_PaddedDev), company_name |-> Str(txt_Acme), company |-> Absent,
     candidate_required_location |-> Absent, location |-> Absent,
     url |-> Str(txt_Url), job_url |-> Absent,
     publication_date |-> Absent, published_at |-> Absent]

RemotiveItems ==
    {MkObj(r) : r \in
        {[RemotiveBase EXCEPT !.title = a] : a \in TextValues}
        \cup {[RemotiveBase EXCEPT !.company_name = a, !.company = b] :
                 a \in TextValues, b \in FallbackValues}
        \cup {[RemotiveBase EXCEPT !.candidate_required_location = a, !.location = b] :
                 a \in TextValues, b \in FallbackValues}
        \cup {[RemotiveBase EXCEPT !.url = a, !.job_url = b] :
                 a \in TextValues, b \in FallbackValues}
        \cup {[RemotiveBase EXCEPT !.publication_date = a, !.published_at = b] :
                 a \in DateValues, b \in {Absent, Iso(4, "none", 0)}}}

AdzunaBase ==
    [title |-> Str(txt_PaddedDev), company |-> Obj([display_name |-> Str(txt_Acme)]),
     location |-> Absent, redirect_url |-> Str(txt_Url), url |-> Absent,
     created |-> Absent]

\* The values the Adzuna location object takes.
AdzunaLocations ==
    {Absent, None, EmptyObj, Str(txt_NY),
     Obj([display_name |-> Str(txt_NY)]),
     Obj([display_name |-> Str(txt_Blank)]),
     Obj([display_name |-> None, area |-> List(<<Str(txt_US), Str(txt_NY)>>)]),
     Obj([area |-> EmptyList]),
     Obj([area |-> None]),
     Obj([area |-> List(<<EmptyStr>>)]),
     Obj([area |-> List(<<Str(txt_Blank)>>)])}

AdzunaItems ==
    {MkObj(r) : r \in
        {[AdzunaBase EXCEPT !.title = a] : a \in TextValues}
        \cup {[AdzunaBase EXCEPT !.company = a] : a \in CompanyObjects}
        \cup {[AdzunaBase EXCEPT !.location = a] : a \in AdzunaLocations}
        \cup {[AdzunaBase EXCEPT !.redirect_url = a, !.url = b] :
                 a \in TextValues, b \in FallbackValues}
        \cup {[AdzunaBase EXCEPT !.created = a] : a \in DateValues}}

JSearchBase ==
    [job_title |-> Str(txt_PaddedDev), employer_name |-> Str(txt_Acme),
     job_city |-> Absent, job_state |-> Absent, job_country |-> Absent,
     job_apply_link |-> Str(txt_Url), job_url |-> Absent,
     job_posted_at_datetime_utc |-> Absent, job_posted_at |-> Absent]

JSearchItems ==
    {MkObj(r) : r \in
        {[JSearchBase EXCEPT !.job_title = a] : a \in TextValues}
        \cup {[JSearchBase EXCEPT !.employer_name = a] : a \in TextValues}
        \cup {[JSearchBase EXCEPT !.job_city = a, !.job_state = b, !.job_country = c] :
                 a \in TextValues, b \in {Absent, Str(txt_NY)}, c \in {Absent, Str(txt_US)}}
        \cup {[JSearchBase EXCEPT !.job_apply_link = a, !.job_url = b] :
                 a \in TextValues, b \in FallbackValues}
        \cup {[JSearchBase EXCEPT !.job_posted_at_datetime_utc = a, !.job_posted_at = b] :
                 a \in DateValues, b \in {Absent, Iso(4, "none", 0)}}}

CareerjetBase ==
    [title |-> Str(txt_PaddedDev), company |-> Str(txt_Acme), locations |-> Absent,
     location |-> Absent, url |-> Str(txt_Url), site |-> Absent, date |-> Absent]

CareerjetItems ==
    {MkObj(r) : r \in
        {[CareerjetBase EXCEPT !.title = a] : a \in TextValues}
        \cup {[CareerjetBase EXCEPT !.company = a] : a \in TextValues}
        \cup {[CareerjetBase EXCEPT !.locations = a, !.location = b] :
                 a \in TextValues, b \in FallbackValues}
        \cup {[CareerjetBase EXCEPT !.url = a, !.site = b] :
                 a \in TextValues, b \in FallbackValues}
        \cup {[CareerjetBase EXCEPT !.date = a] : a \in DateValues}}

TheMuseBase ==
    [name |-> Str(txt_PaddedDev), company |-> Obj([name |-> Str(txt_Acme)]),
     locations |-> Absent, refs |-> Obj([landing_page |-> Str(txt_Url)]),
     publication_date |-> Absent]

\* The values the TheMuse refs object takes.
TheMuseRefs ==
    {Absent, None, EmptyObj, Str(txt_Url), Obj([landing_page |-> None]),
     Obj([landing_page |-> Str(txt_Blank)]), Obj([landing_page |-> Str(txt_Url)]),
     Obj([landing_page |-> Num(7)])}

TheMuseItems ==
    {MkObj(r) : r \in
        {[TheMuseBase EXCEPT !.name = a] : a \in TextValues}
        \cup {[TheMuseBase EXCEPT !.company = a] : a \in CompanyObjects}
        \cup {[TheMuseBase EXCEPT !.locations = a] : a \in ListValues}
        \cup {[TheMuseBase EXCEPT !.refs = a] : a \in TheMuseRefs}
        \cup {[TheMuseBase EXCEPT !.publication_date = a] : a \in DateValues}}

USAJobsBase ==
    [PositionTitle |-> Str(txt_PaddedDev), OrganizationCodes |-> Absent,
     PositionLocationDisplay |-> Absent, PositionURI |-> List(<<Str(txt_Url)>>),
     PublicationStartDate |-> Absent]

USAJobsItems ==
    {MkObj([MatchedObjectDescriptor |-> d]) : d \in
        {Absent, None, EmptyObj, Str(txt_Dev)}
        \cup {MkObj(r) : r \in
                {[USAJobsBase EXCEPT !.PositionTitle = a] : a \in TextValues}
                \cup {[USAJobsBase EXCEPT !.OrganizationCodes = a] : a \in ListValues}
                \cup {[USAJobsBase EXCEPT !.PositionLocationDisplay = a] : a \in ListValues}
                \cup {[USAJobsBase EXCEPT !.PositionURI = a] : a \in ListValues}
                \cup {[USAJobsBase EXCEPT !.PublicationStartDate = a] : a \in DateValues}}}

\* The raw listing items the adapter src is called on.
RawItems(src) ==
    CASE src = "Remotive" -> RemotiveItems
      [] src = "Adzuna" -> AdzunaItems
      [] src = "JSearch" -> JSearchItems
      [] src = "Careerjet" -> CareerjetItems
      [] src = "TheMuse" -> TheMuseItems
      [] src = "USAJobs" -> USAJobsItems

\* The listing arrays the adapter src is called on: one raw item alone, after
\* a well-formed item, before one, and arrays with an entry that is no object.
RawListings(src) ==
    {<<>>, <<ItemA[src], ItemB[src]>>, <<None>>, <<ItemA[src], Str(txt_Dev)>>, <<EmptyList>>}
    \cup {<<x>> : x \in RawItems(src)}
    \cup {<<ItemA[src], x>> : x \in RawItems(src)}
    \cup {<<x, ItemB[src]>> : x \in RawItems(src)}

\* The decoded bodies the adapter src is called on: a listing under the
\* provider's key, the same listing as the root array, and bodies without a
\* usable listing.
Bodies(src) ==
    {Listing(src, its) : its \in RawListings(src)}
    \cup {List(its) : its \in RawListings(src)}
    \cup {None, Num(7), Str(txt_Dev), EmptyObj, Wrap(src, None), Wrap(src, Num(7)),
          Wrap(src, Str(txt_Dev)), Wrap(src, EmptyObj),
          Wrap(src, Obj([title |-> Str(txt_Dev)])),
          Obj([SearchResult |-> None])}

\* What the request of a directly called adapter can meet.
CallOutcomes(src) ==
    {HttpTransportError, HttpBadStatus, HttpNotJson}
    \cup {HttpJson(b) : b \in Bodies(src)}

\* The adapter src is called on its own; call records the response met, the
\* GETs issued and what the adapter returned or raised.
AdapterCall ==
    /\ pc = "idle"
    /\ \E src \in AdapterSet : \E http \in CallOutcomes(src) :
          LET f == Fetch(src, env, http)
          IN  call' = [fn |-> src, http |-> http, get |-> f.get, out |-> f.out]
    /\ pc' = "called"
    /\ UNCHANGED <<env, caller, limit, jobs, gets, ret, page>>

NextCall ==
    AdapterCall

SpecCall == Init /\ [][NextCall]_vars

(***************************************************************************)
(* Properties of a direct adapter call                                     *)
(***************************************************************************)

\* The adapter call.fn was called and its request got a decoded body.
CalledWithBody ==
    pc = "called" /\ call.get = 1 /\ call.http.k = "json"

\* The value under key of a raw object, Absent when there is none.
Field(o, key) ==
    IF o.k = "obj" /\ key \in DOMAIN o.v THEN o.v[key] ELSE Absent

\* The listing array of a body, read at the provider's documented listing key.
ListingItems(src, body) ==
    LET v == CASE src = "Remotive" -> Field(body, "jobs")
               [] src = "Adzuna" -> Field(body, "results")
               [] src = "JSearch" -> Field(body, "data")
               [] src = "Careerjet" -> Field(body, "jobs")
               [] src = "TheMuse" -> Field(body, "results")
               [] src = "USAJobs" -> Field(Field(body, "SearchResult"), "SearchResultItems")
    IN  IF v.k = "list" THEN v.v ELSE <<>>

\* v is text with something in it besides whitespace.
Usable(v) ==
    v.k = "str" /\ Strip(v.v) # <<>>

\* v is a list (or text) whose first entry is usable text.
FirstUsable(v) ==
    \/ v.k = "list" /\ v.v # <<>> /\ Usable(v.v[1])
    \/ Usable(v)

\* Some of the keys of o holds usable text.
HasText(o, keys) ==
    \E key \in keys : Usable(Field(o, key))

\* The raw item has a title, a url and (USAJobs excepted) a company under the
\* field names of the provider's field map.
HasRequiredFields(src, item) ==
    CASE src = "Remotive" ->
            /\ HasText(item, {"title"})
            /\ HasText(item, {"company_name", "company"})
            /\ HasText(item, {"url", "job_url"})
      [] src = "Adzuna" ->
            /\ HasText(item, {"title"})
            /\ HasText(Field(item, "company"), {"display_name", "name"})
            /\ HasText(item, {"redirect_url", "url"})
      [] src = "JSearch" ->
            /\ HasText(item, {"job_title"})
            /\ HasText(item, {"employer_name"})
            /\ HasText(item, {"job_apply_link", "job_url"})
      [] src = "Careerjet" ->
            /\ HasText(item, {"title"})
            /\ HasText(item, {"company"})
            /\ HasText(item, {"url", "site"})
      [] src = "TheMuse" ->
            /\ HasText(item, {"name"})
            /\ HasText(Field(item, "company"), {"name"})
            /\ HasText(Field(item, "refs"), {"landing_page"})
      [] src = "USAJobs" ->
            /\ HasText(Field(item, "MatchedObjectDescriptor"), {"PositionTitle"})
            /\ FirstUsable(Field(Field(item, "MatchedObjectDescriptor"), "PositionURI"))

\* C8: every record an adapter returns has a non-empty trimmed title and url
\* and, unless its source is USAJobs, a non-empty trimmed company; its source
\* is the adapter that built it; and the adapter returns no more records than
\* the listing has items with a title, a url and (USAJobs excepted) a company.
C8_RecordsAreComplete ==
    (pc = "called" /\ call.out.k = "list") =>
        /\ \A i \in 1..Len(call.out.v) :
              LET r == call.out.v[i]
              IN  /\ Strip(r.title) # <<>>
                  /\ Strip(r.url) # <<>>
                  /\ r.source # "USAJobs" => Strip(r.company) # <<>>
                  /\ r.source = call.fn
        /\ CalledWithBody =>
              LET items == ListingItems(call.fn, call.http.v)
              IN  Len(call.out.v) <=
                     Cardinality({i \in 1..Len(items) : HasRequiredFields(call.fn, items[i])})

\* C8 witness: an adapter returned a record for one item of a listing and
\* none for another item, which lacks a required field.
C8_Witness ==
    /\ CalledWithBody
    /\ call.out.k = "list"
    /\ Len(call.out.v) = 1
    /\ Len(ListingItems(call.fn, call.http.v)) = 2
    /\ \E i \in 1..2 : ~HasRequiredFields(call.fn, ListingItems(call.fn, call.http.v)[i])

\* v is missing, null, or text with nothing but whitespace in it.
NoText(v) ==
    \/ v.k \in {"absent", "null"}
    \/ v.k = "str" /\ Strip(v.v) = <<>>

\* v is missing, null, an empty list, or a list whose first entry is no text
\* (for named entries: has no text as its name).
NoFirst(v, named) ==
    \/ v.k \in {"absent", "null"}
    \/ v.k = "list" /\ v.v = <<>>
    \/ v.k = "list" /\ v.v # <<>> /\ ~named /\ NoText(v.v[1])
    \/ v.k = "list" /\ v.v # <<>> /\ named /\ v.v[1].k = "obj"
          /\ NoText(Field(v.v[1], "name"))

\* The provider's location fields are all absent from the raw item.
LocationAbsent(src, item) ==
    CASE src = "Remotive" ->
            NoText(Field(item, "candidate_required_location")) /\ NoText(Field(item, "location"))
      [] src = "Adzuna" ->
            \/ Field(item, "location").k \in {"absent", "null"}
            \/ /\ Field(item, "location").k = "obj"
               /\ NoText(Field(Field(item, "location"), "display_name"))
               /\ NoFirst(Field(Field(item, "location"), "area"), FALSE)
      [] src = "JSearch" ->
            /\ NoText(Field(item, "job_city"))
            /\ NoText(Field(item, "job_state"))
            /\ NoText(Field(item, "job_country"))
      [] src = "Careerjet" ->
            NoText(Field(item, "locations")) /\ NoText(Field(item, "location"))
      [] src = "TheMuse" ->
            NoFirst(Field(item, "locations"), TRUE)
      [] src = "USAJobs" ->
            NoFirst(Field(Field(item, "MatchedObjectDescriptor"), "PositionLocationDisplay"),
                    FALSE)

\* Every title, company and url field the raw item has holds usable text
\* (USAJobs: the organization codes, when present, start with usable text).
CleanRequiredFields(src, item) ==
    /\ HasRequiredFields(src, item)
    /\ CASE src = "Remotive" ->
              \A key \in {"title", "company_name", "company", "url", "job_url"} :
                 Field(item, key).k # "absent" => Usable(Field(item, key))
         [] src = "Adzuna" ->
              /\ \A key \in {"title", "redirect_url", "url"} :
                    Field(item, key).k # "absent" => Usable(Field(item, key))
              /\ \A key \in {"display_name", "name"} :
                    Field(Field(item, "company"), key).k # "absent"
                       => Usable(Field(Field(item, "company"), key))
         [] src = "JSearch" ->
              \A key \in {"job_title", "employer_name", "job_apply_link", "job_url"} :
                 Field(item, key).k # "absent" => Usable(Field(item, key))
         [] src = "Careerjet" ->
              \A key \in {"title", "company", "url", "site"} :
                 Field(item, key).k # "absent" => Usable(Field(item, key))
         [] src = "TheMuse" -> TRUE
         [] src = "USAJobs" ->
              LET codes == Field(Field(item, "MatchedObjectDescriptor"), "OrganizationCodes")
                  uri == Field(Field(item, "MatchedObjectDescriptor"), "PositionURI")
              IN  /\ codes.k # "absent" => (codes.k = "list" /\ FirstUsable(codes))
                  /\ uri.k = "list"

\* C9: for a raw item with a valid title, company and url whose location
\* fields are absent (missing, null, empty or blank text, an empty list, a
\* list whose first entry has no usable name), the adapter builds the record
\* and its location is "Remote"; and no record has an empty location.
C9_AbsentLocationIsRemote ==
    (CalledWithBody /\ Len(ListingItems(call.fn, call.http.v)) = 1) =>
        LET item == ListingItems(call.fn, call.http.v)[1]
        IN  /\ (CleanRequiredFields(call.fn, item) /\ LocationAbsent(call.fn, item)) =>
                  /\ call.out.k = "list"
                  /\ Len(call.out.v) = 1
                  /\ call.out.v[1].location = RemoteText
            /\ call.out.k = "list" =>
                  \A i \in 1..Len(call.out.v) : call.out.v[i].location # <<>>

\* C10: fetch_remotive_jobs accepts a root-level array of listing objects: it
\* does not raise on it, and returns the records it returns for the same
\* items under the jobs key.
C10_RemotiveAcceptsRootArray ==
    (CalledWithBody /\ call.fn = "Remotive" /\ call.http.v.k = "list") =>
        LET nested == Fetch("Remotive", env, HttpJson(Obj([jobs |-> call.http.v]))).out
        IN  (nested.k = "list" /\ nested.v # <<>>) => call.out = nested

(***************************************************************************)
(* Direct calls of categorize_job                                          *)
(***************************************************************************)

MaxTokens == 2

\* The pieces the titles given to categorize_job are made of.
TitleTokens ==
    {<<"D", "a", "t", "a", " ">>,
     <<"I", "n", "t", "e", "r", "n">>,
     <<"I", "N", "T", "E", "R", "N", "S", "H", "I", "P">>,
     <<"A", "n", "a", "l", "y", "s", "t">>,
     <<"A", "I", " ">>,
     <<"m", "l">>,
     <<"M", "a", "c", "h", "i", "n", "e", " ", "L", "e", "a", "r", "n", "i", "n", "g">>,
     <<"M", "a", "c", "h", "i", "n", "e">>,
     <<" ", "L", "e", "a", "r", "n", "i", "n", "g">>,
     <<"M", "a">>,
     <<"i", "l">>,
     <<"D", "e", "v">>,
     <<"E", "n", "g", "i", "n", "e", "e", "r">>}

\* The titles: up to MaxTokens pieces, one after the other.
Titles ==
    {Concat(ts) : ts \in UNION {[1..n -> TitleTokens] : n \in 0..MaxTokens}}

InitTitle ==
    /\ env = [c \in Credentials |-> "unset"]
    /\ pc = "idle"
    /\ caller = "none"
    /\ limit = 0
    /\ jobs = <<>>
    /\ gets = [a \in AdapterSet |-> 0]
    /\ ret = None
    /\ page = None
    /\ \E title \in Titles : call = [fn |-> "categorize_job", arg |-> title, out |-> <<>>]

\* categorize_job is called on the title drawn.
Categorize ==
    /\ pc = "idle"
    /\ call.fn = "categorize_job"
    /\ call' = [call EXCEPT !.out = categorize_job(call.arg)]
    /\ pc' = "called"
    /\ UNCHANGED <<env, caller, limit, jobs, gets, ret, page>>

NextTitle ==
    Categorize

SpecTitle == InitTitle /\ [][NextTitle]_vars

\* The rules of the specification, in priority order: keywords and category.
CategoryRules ==
    <<[keywords |-> {kw_intern, kw_internship}, category |-> Internship],
      [keywords |-> {kw_data, kw_analyst}, category |-> DataScience],
      [keywords |-> {kw_ai, kw_ml, kw_machine_learning}, category |-> AIML]>>

\* The lower-case keyword kw occurs in title, letter case ignored.
OccursIgnoringCase(title, kw) ==
    \E i \in 0..(Len(title) - Len(kw)) :
       \A j \in 1..Len(kw) : LowerChar(title[i + j]) = kw[j]

RuleApplies(n, title) ==
    \E kw \in CategoryRules[n].keywords : OccursIgnoringCase(title, kw)

\* The category of the first rule that applies, Software Engineering if none.
CategoryByRules(title) ==
    IF \E n \in 1..Len(CategoryRules) : RuleApplies(n, title)
    THEN CategoryRules[SetMin({n \in 1..Len(CategoryRules) : RuleApplies(n, title)})].category
    ELSE SoftwareEngineering

\* C7: categorize_job returns, for every title, one of the four categories:
\* that of the first rule (intern, data, ai/ml) one of whose keywords occurs
\* in the title in any letter case, else Software Engineering; a title with
\* "intern" in it is Internship whatever else it contains.
C7_CategorizationIsPriorityOrdered ==
    (pc = "called" /\ call.fn = "categorize_job") =>
        /\ call.out \in Categories
        /\ call.out = CategoryByRules(call.arg)
        /\ OccursIgnoringCase(call.arg, kw_intern) => call.out = Internship

\* C7 witness: a title with an upper-case "INTERN" and with "data" in it was
\* categorized as Internship.
C7_Witness ==
    /\ pc = "called"
    /\ call.fn = "categorize_job"
    /\ OccursIgnoringCase(call.arg, kw_data)
    /\ OccursIgnoringCase(call.arg, kw_intern)
    /\ ~Contains(call.arg, kw_intern)
    /\ call.out = Internship

====
